---- MODULE Spec2Model ----
(***************************************************************************)
(* Model of app.py: the Streamlit script main() is rerun once per user     *)
(* interaction.  Each rerun reads the widget values (API key, uploaded     *)
(* files, process button, query), optionally runs the processing pipeline  *)
(* load_documents_from_files -> create_index -> create_query_engine and    *)
(* stores the engine in st.session_state, then optionally runs the query   *)
(* step on the stored engine and renders the response.                     *)
(* The external collaborators (file system, SimpleDirectoryReader,         *)
(* VectorStoreIndex, the query engine, the Streamlit render calls) are     *)
(* black boxes: each call either returns or raises, chosen with \E.        *)
(***************************************************************************)
EXTENDS Integers, Sequences, FiniteSets, TLC

\* ---------------------------------------------------------------- bounds
MaxRuns == 3        \* script reruns (user interactions) of one session
NumBatches == 2     \* distinct upload batches the user can select
MaxDocs == 1        \* documents the reader can return for a batch
MaxSources == 2     \* source nodes a response can carry

\* ---------------------------------------------------------------- values
ApiKeys == {"", "sk"}
Queries == {"", "q"}
Batches == 1..NumBatches
\* uploaded_files is identified by its batch; 0 is the empty upload list,
\* batch b holds b files.
FilesIn(b) == b

Absent == [kind |-> "absent", batch |-> 0, run |-> 0]
NoneVal == [kind |-> "None", batch |-> 0, run |-> 0]
IndexOf(docs, r) == [kind |-> "index", batch |-> docs.batch, run |-> r]
EngineOf(idx) == [kind |-> "engine", batch |-> idx.batch, run |-> idx.run]
NoDocs == [batch |-> 0, n |-> 0]
NoResponse == [ok |-> FALSE, sources |-> << >>]
\* a score is a number (hundredths) or missing (0): node.score is Optional
Scores == {0, 80}
Responses == {[ok |-> TRUE, sources |-> s] :
                 s \in UNION {[1..k -> Scores] : k \in 0..MaxSources}}
NothingRendered == [key_info |-> FALSE, proc_error |-> FALSE, success |-> FALSE,
                    answer |-> FALSE, expanders |-> 0, texts |-> 0,
                    no_sources |-> FALSE, query_error |-> FALSE]

VARIABLES run, pc, api_key, uploaded_files, process_button, query,
          session_state, temp_dirs, written, documents, index, response,
          node_i, rendered, ops, calls, ever_stored, last_ok, proc_result,
          engine_at_start, retriever_arg, fail_at

widgets == <<api_key, uploaded_files, process_button, query>>
locals == <<written, documents, index, response, node_i>>
ghosts == <<ops, calls, ever_stored, last_ok, proc_result, engine_at_start,
            retriever_arg, fail_at>>
vars == <<run, pc, widgets, session_state, temp_dirs, locals, rendered, ghosts>>

\* ---------------------------------------------------------------- helpers
\* Python truthiness of a string / of the upload list
Truthy(s) == s # ""
HasFiles(b) == b # 0

\* `if api_key:` -- st.text_input returns "" when nothing was typed
KeyNotNone(k) == TRUE
KeyPresent(k) == Truthy(k)

\* `if uploaded_files and process_button`
ShouldProcess(files, button) == HasFiles(files) /\ button

\* `if query and 'query_engine' in st.session_state`
ShouldQueryNoGuard(q, ss) == Truthy(q)
ShouldQuery(q, ss) == Truthy(q) /\ ss # Absent

\* tempfile.TemporaryDirectory: __enter__ makes a fresh directory, __exit__
\* removes it whether or not the body raised.
NewDir(dirs) == CHOOSE d \in 1..(Cardinality(dirs) + 1) : d \notin dirs
ExitTempDirNoFinally(dirs, raised) == IF raised THEN dirs ELSE {}
ExitTempDir(dirs, raised) == {}

\* create_index(documents): None for an empty list or a failed build
create_index(docs, build_ok, r) ==
    IF docs.n = 0 THEN NoneVal
    ELSE IF build_ok THEN IndexOf(docs, r)
    ELSE NoneVal

\* create_query_engine(index): outcome is "ok", "llm_raises" (OpenAI(...)
\* raises before the retriever is built) or "ctor_raises" (the retriever or
\* engine constructor raises).  arg is the index handed to
\* VectorIndexRetriever, Absent when the constructor is not reached.
create_query_engine(idx, outcome) ==
    IF idx = NoneVal THEN [engine |-> NoneVal, arg |-> Absent]
    ELSE IF outcome = "llm_raises" THEN [engine |-> NoneVal, arg |-> Absent]
    ELSE IF outcome = "ctor_raises" THEN [engine |-> NoneVal, arg |-> idx]
    ELSE [engine |-> EngineOf(idx), arg |-> idx]

\* `if index is None: return` / `if query_engine is None: return`
IndexIsNone(idx) == idx = NoneVal
EngineIsNoneUnchecked(qe) == FALSE
EngineIsNone(qe) == qe = NoneVal

\* `st.session_state.query_engine = query_engine`
StoreEngineIfAbsent(ss, qe) == IF ss = Absent THEN qe ELSE ss
StoreEngine(ss, qe) == qe

\* the engine the query step calls: st.session_state.query_engine, read
\* when the query step runs
EngineReadEarly(ss, at_start) == IF at_start = Absent THEN ss ELSE at_start
EngineForQuery(ss, at_start) == ss

\* where control goes after a processing failure
ProcessingNoneTarget == "done"
ProcessingExceptionTarget == "query_check"
\* where control goes after the query step's except clause
QueryExceptionRetry == "query_call"
QueryExceptionTarget == "done"

\* f"{node.score:.2f}" raises for a missing score
Formattable(score) == score # 0

\* ---------------------------------------------------------------- Init
Init ==
    /\ run = 0
    /\ pc = "done"
    /\ api_key = ""
    /\ uploaded_files = 0
    /\ process_button = FALSE
    /\ query = ""
    /\ session_state = Absent
    /\ temp_dirs = {}
    /\ written = 0
    /\ documents = NoDocs
    /\ index = NoneVal
    /\ response = NoResponse
    /\ node_i = 0
    /\ rendered = NothingRendered
    /\ ops = {}
    /\ calls = << >>
    /\ ever_stored = FALSE
    /\ last_ok = Absent
    /\ proc_result = "none"
    /\ engine_at_start = Absent
    /\ retriever_arg = Absent
    /\ fail_at = "none"

\* ---------------------------------------------------------------- actions
\* A user interaction: Streamlit reruns main() with the widget values.
Rerun ==
    /\ pc = "done"
    /\ run < MaxRuns
    /\ run' = run + 1
    /\ pc' = "start"
    /\ api_key' \in ApiKeys
    /\ uploaded_files' \in 0..NumBatches
    /\ process_button' \in BOOLEAN
    /\ query' \in Queries
    /\ written' = 0
    /\ documents' = NoDocs
    /\ index' = NoneVal
    /\ response' = NoResponse
    /\ node_i' = 0
    /\ rendered' = NothingRendered
    /\ ops' = {}
    /\ calls' = << >>
    /\ proc_result' = "none"
    /\ engine_at_start' = session_state
    /\ retriever_arg' = Absent
    /\ fail_at' = "none"
    /\ UNCHANGED <<session_state, temp_dirs, ever_stored, last_ok>>

\* `if api_key:` ... `else: st.info(...)`, then `if uploaded_files and
\* process_button:`
CheckKey ==
    /\ pc = "start"
    /\ IF ~KeyPresent(api_key)
       THEN /\ rendered' = [rendered EXCEPT !.key_info = TRUE]
            /\ pc' = "done"
       ELSE /\ rendered' = rendered
            /\ pc' = IF ShouldProcess(uploaded_files, process_button)
                     THEN "mkdtemp" ELSE "query_check"
    /\ UNCHANGED <<run, widgets, session_state, temp_dirs, locals, ghosts>>

\* the except clause of the processing try block
ProcessingRaised(result) ==
    /\ proc_result' = result
    /\ rendered' = [rendered EXCEPT !.proc_error = TRUE]
    /\ pc' = ProcessingExceptionTarget

\* load_documents_from_files: `with tempfile.TemporaryDirectory() as temp_dir`
EnterTempDir ==
    /\ pc = "mkdtemp"
    /\ ops' = ops \cup {"mkdtemp"}
    /\ \E ok \in BOOLEAN :
         IF ok
         THEN /\ temp_dirs' = temp_dirs \cup {NewDir(temp_dirs)}
              /\ pc' = "write"
              /\ UNCHANGED <<proc_result, rendered>>
         ELSE /\ temp_dirs' = temp_dirs
              /\ ProcessingRaised("load_exc")
    /\ UNCHANGED <<run, widgets, session_state, locals, calls, ever_stored,
                   last_ok, engine_at_start, retriever_arg, fail_at>>

\* load_documents_from_files: one iteration of the loop saving a file
WriteFile ==
    /\ pc = "write"
    /\ written < FilesIn(uploaded_files)
    /\ ops' = ops \cup {"write"}
    /\ \E ok \in BOOLEAN :
         IF ok
         THEN /\ written' = written + 1
              /\ UNCHANGED <<pc, temp_dirs, proc_result, rendered>>
         ELSE /\ written' = written
              /\ temp_dirs' = ExitTempDir(temp_dirs, TRUE)
              /\ ProcessingRaised("load_exc")
    /\ UNCHANGED <<run, widgets, session_state, documents, index, response,
                   node_i, calls, ever_stored, last_ok, engine_at_start,
                   retriever_arg, fail_at>>

\* load_documents_from_files: SimpleDirectoryReader(...).load_data(), the
\* exit of the with block and the return
ReadData ==
    /\ pc = "write"
    /\ written = FilesIn(uploaded_files)
    /\ ops' = ops \cup {"read"}
    /\ \E ok \in BOOLEAN, n \in 0..MaxDocs :
         IF ok
         THEN /\ documents' = [batch |-> uploaded_files, n |-> n]
              /\ temp_dirs' = ExitTempDir(temp_dirs, FALSE)
              /\ pc' = "create_index"
              /\ UNCHANGED <<proc_result, rendered>>
         ELSE /\ documents' = documents
              /\ temp_dirs' = ExitTempDir(temp_dirs, TRUE)
              /\ ProcessingRaised("load_exc")
    /\ UNCHANGED <<run, widgets, session_state, written, index, response,
                   node_i, calls, ever_stored, last_ok, engine_at_start,
                   retriever_arg, fail_at>>

\* `index = create_index(documents)`; `if index is None: ... return`
CreateIndex ==
    /\ pc = "create_index"
    /\ \E build_ok \in BOOLEAN :
         /\ index' = create_index(documents, build_ok, run)
         /\ ops' = IF documents.n = 0 THEN ops ELSE ops \cup {"from_documents"}
         /\ proc_result' = IF documents.n = 0 THEN "empty"
                           ELSE IF build_ok THEN proc_result ELSE "build_exc"
    /\ IF IndexIsNone(index')
       THEN /\ rendered' = [rendered EXCEPT !.proc_error = TRUE]
            /\ pc' = ProcessingNoneTarget
       ELSE /\ rendered' = rendered
            /\ pc' = "create_qe"
    /\ UNCHANGED <<run, widgets, session_state, temp_dirs, written, documents,
                   response, node_i, calls, ever_stored, last_ok,
                   engine_at_start, retriever_arg, fail_at>>

\* `query_engine = create_query_engine(index)`; `if query_engine is None:
\* ... return`; store in session state; success message
CreateQueryEngine ==
    /\ pc = "create_qe"
    /\ \E outcome \in {"ok", "llm_raises", "ctor_raises"} :
         LET r == create_query_engine(index, outcome) IN
         /\ retriever_arg' = r.arg
         /\ ops' = IF r.arg = Absent THEN ops ELSE ops \cup {"retriever"}
         /\ proc_result' = IF outcome = "ok" /\ index # NoneVal
                           THEN "ok" ELSE "qe_exc"
         /\ IF EngineIsNone(r.engine)
            THEN /\ rendered' = [rendered EXCEPT !.proc_error = TRUE]
                 /\ pc' = ProcessingNoneTarget
                 /\ UNCHANGED <<session_state, ever_stored, last_ok>>
            ELSE /\ session_state' = StoreEngine(session_state, r.engine)
                 /\ ever_stored' = TRUE
                 /\ last_ok' = r.engine
                 /\ rendered' = [rendered EXCEPT !.success = TRUE]
                 /\ pc' = "query_check"
    /\ UNCHANGED <<run, widgets, temp_dirs, locals, calls, engine_at_start,
                   fail_at>>

\* `if query and 'query_engine' in st.session_state:`
QueryCheck ==
    /\ pc = "query_check"
    /\ pc' = IF ShouldQuery(query, session_state) THEN "query_call" ELSE "done"
    /\ UNCHANGED <<run, widgets, session_state, temp_dirs, locals, rendered,
                   ghosts>>

\* the except clause of the query try block
QueryRaisedSilently(where) ==
    /\ fail_at' = where
    /\ rendered' = rendered
QueryRaised(where) ==
    /\ fail_at' = where
    /\ rendered' = [rendered EXCEPT !.query_error = TRUE]

\* `response = st.session_state.query_engine.query(query)`
QueryCall ==
    /\ pc = "query_call"
    /\ calls' = Append(calls, EngineForQuery(session_state, engine_at_start))
    /\ ops' = ops \cup {"query"}
    /\ \/ /\ QueryRaised("query")
          /\ pc' = QueryExceptionTarget
          /\ response' = response
       \/ /\ EngineForQuery(session_state, engine_at_start).kind = "engine"
          /\ response' \in Responses
          /\ pc' = "render_answer"
          /\ UNCHANGED <<fail_at, rendered>>
    /\ UNCHANGED <<run, widgets, session_state, temp_dirs, written, documents,
                   index, node_i, ever_stored, last_ok, proc_result,
                   engine_at_start, retriever_arg>>

\* `st.subheader("Response:")`; `st.write(str(response))`;
\* `st.subheader("Source Nodes:")`; the test for an empty source list
RenderAnswer ==
    /\ pc = "render_answer"
    /\ \E ok \in BOOLEAN :
         IF ~ok
         THEN /\ QueryRaised("answer")
              /\ pc' = "done"
              /\ node_i' = node_i
         ELSE /\ fail_at' = fail_at
              /\ IF Len(response.sources) = 0
                 THEN /\ rendered' = [rendered EXCEPT !.answer = TRUE,
                                                      !.no_sources = TRUE]
                      /\ pc' = "done"
                      /\ node_i' = node_i
                 ELSE /\ rendered' = [rendered EXCEPT !.answer = TRUE]
                      /\ pc' = "render_node"
                      /\ node_i' = 1
    /\ UNCHANGED <<run, widgets, session_state, temp_dirs, written, documents,
                   index, response, ops, calls, ever_stored, last_ok,
                   proc_result, engine_at_start, retriever_arg>>

\* one iteration of `for node in response.source_nodes:` -- the expander
\* header formats node.score, then the body writes node.text
RenderNode ==
    /\ pc = "render_node"
    /\ \E outcome \in {"ok", "text_raises"} :
         IF ~Formattable(response.sources[node_i])
         THEN /\ QueryRaised("source")
              /\ pc' = "done"
              /\ node_i' = node_i
         ELSE IF outcome = "text_raises"
         THEN /\ fail_at' = "source"
              /\ rendered' = [rendered EXCEPT !.expanders = @ + 1,
                                                !.query_error = TRUE]
              /\ pc' = "done"
              /\ node_i' = node_i
         ELSE /\ fail_at' = fail_at
              /\ rendered' = [rendered EXCEPT !.expanders = @ + 1,
                                                !.texts = @ + 1]
              /\ node_i' = node_i + 1
              /\ pc' = IF node_i = Len(response.sources)
                       THEN "done" ELSE "render_node"
    /\ UNCHANGED <<run, widgets, session_state, temp_dirs, written, documents,
                   index, response, ops, calls, ever_stored, last_ok,
                   proc_result, engine_at_start, retriever_arg>>

Next ==
    \/ Rerun
    \/ CheckKey
    \/ EnterTempDir
    \/ WriteFile
    \/ ReadData
    \/ CreateIndex
    \/ CreateQueryEngine
    \/ QueryCheck
    \/ QueryCall
    \/ RenderAnswer
    \/ RenderNode

Spec == Init /\ [][Next]_vars

TypeOK ==
    /\ run \in 0..MaxRuns
    /\ api_key \in ApiKeys
    /\ query \in Queries
    /\ uploaded_files \in 0..NumBatches
    /\ process_button \in BOOLEAN
    /\ session_state.kind \in {"absent", "engine", "None"}

\* ---------------------------------------------------------------- claims
Failures == {"load_exc", "empty", "build_exc", "qe_exc"}
InQueryStep == pc \in {"query_call", "render_answer", "render_node"}

\* C1: while no processing attempt of the session has succeeded (no engine
\* was ever stored), no query call is made, the query step is never entered
\* and session state holds no engine, whatever the query is.
C1_NoQueryBeforeFirstSuccess ==
    ~ever_stored =>
        /\ calls = << >>
        /\ "query" \notin ops
        /\ ~InQueryStep
        /\ session_state = Absent
C1_Witness ==
    /\ ~ever_stored
    /\ pc = "done"
    /\ Truthy(api_key)
    /\ Truthy(query)
    /\ proc_result = "load_exc"

\* C2: every query is answered by the engine built by the latest successful
\* processing, which derives from that processing's batch only.
C2_QueryUsesLatestBatch ==
    /\ ever_stored => session_state = last_ok
    /\ \A i \in 1..Len(calls) :
         /\ calls[i] = last_ok
         /\ calls[i].kind = "engine"
         /\ calls[i].batch = last_ok.batch
C2_Witness ==
    /\ engine_at_start.kind = "engine"
    /\ engine_at_start.batch = 1
    /\ last_ok.batch = 2
    /\ Len(calls) = 1
    /\ calls[1].batch = 2
    /\ pc = "done"

\* C3: in an interaction whose API key is empty nothing is loaded, built,
\* constructed or queried, the stored engine is left alone, and the only
\* thing rendered is the request for the key.
C3_EmptyKeyBlocksEverything ==
    ~Truthy(api_key) =>
        /\ ops = {}
        /\ calls = << >>
        /\ retriever_arg = Absent
        /\ temp_dirs = {}
        /\ session_state = engine_at_start
        /\ pc \in {"start", "done"}
        /\ rendered \in {NothingRendered,
                         [NothingRendered EXCEPT !.key_info = TRUE]}
        /\ (pc = "done" /\ run > 0) => rendered.key_info
C3_Witness ==
    /\ ~Truthy(api_key)
    /\ pc = "done"
    /\ session_state.kind = "engine"
    /\ HasFiles(uploaded_files)
    /\ process_button
    /\ Truthy(query)
    /\ rendered.key_info

\* C4 (as claimed): after a failed processing attempt no engine is held in
\* session state, whatever was stored before the process action.
C4_Original ==
    proc_result \in Failures => session_state = Absent
\* C4 (amended): a failed processing attempt leaves session state exactly as
\* it was before the process action (no engine if none was stored, otherwise
\* the engine of the earlier batch), stores nothing built by the failed
\* attempt, and control stays inside main.
C4_FailureKeepsPriorState ==
    proc_result \in Failures =>
        /\ session_state = engine_at_start
        /\ session_state.run # run
        /\ pc \in {"done", "query_check", "query_call", "render_answer",
                   "render_node"}
C4_Witness ==
    /\ proc_result = "qe_exc"
    /\ engine_at_start.kind = "engine"
    /\ session_state = engine_at_start
    /\ pc = "done"

AllRendered ==
    /\ rendered.answer
    /\ rendered.expanders = Len(response.sources)
    /\ rendered.texts = Len(response.sources)
    /\ ~rendered.query_error
OnlyError ==
    /\ rendered.query_error
    /\ ~rendered.answer
    /\ rendered.expanders = 0
    /\ rendered.texts = 0
    /\ ~rendered.no_sources

\* C5 (as claimed): a finished query interaction shows either the answer
\* with all sources and no error, or an error and nothing of the response.
C5_Original ==
    (pc = "done" /\ calls # << >>) => (AllRendered \/ OnlyError)
\* C5 (amended): a finished query interaction shows the answer with all
\* sources and no error when nothing raised; an error and nothing of the
\* response when the query call or the rendering of the answer text raised;
\* and, when rendering the source list raised, the error together with the
\* answer and the sources rendered before the failing one.
C5_AllOrNothingUpToAnswer ==
    (pc = "done" /\ calls # << >>) =>
        /\ fail_at = "none" => AllRendered
        /\ fail_at \in {"query", "answer"} => OnlyError
        /\ fail_at = "source" =>
             /\ rendered.query_error
             /\ rendered.answer
             /\ rendered.texts < Len(response.sources)
             /\ rendered.expanders \in {rendered.texts, rendered.texts + 1}
C5_Witness ==
    /\ pc = "done"
    /\ fail_at = "source"
    /\ rendered.answer
    /\ rendered.texts = 1
    /\ rendered.query_error

\* C6 (as claimed): every interaction that starts with an engine stored, a
\* key and a non-empty query makes exactly one query call and ends with the
\* same engine stored.
C6_Original ==
    (pc = "done" /\ engine_at_start.kind = "engine" /\ Truthy(api_key)
        /\ Truthy(query)) =>
        /\ Len(calls) = 1
        /\ session_state = engine_at_start
\* C6 (amended): the same, for interactions in which no processing runs (no
\* process action, or no uploaded files): exactly one call, made on the
\* stored engine, which stays stored whether the call returned or raised.
C6_OneCallWhenNotProcessing ==
    (pc = "done" /\ engine_at_start.kind = "engine" /\ Truthy(api_key)
        /\ Truthy(query) /\ ~ShouldProcess(uploaded_files, process_button)) =>
        /\ Len(calls) = 1
        /\ calls[1] = engine_at_start
        /\ session_state = engine_at_start
C6_Witness ==
    /\ pc = "done"
    /\ engine_at_start.kind = "engine"
    /\ ~process_button
    /\ Len(calls) = 1
    /\ fail_at = "query"
    /\ session_state = engine_at_start

\* C7: the retriever constructor is only ever handed an index returned by a
\* successful build, the stored engine is never None and derives from such
\* an index, and create_query_engine(None) returns None without reaching
\* the constructor.
C7_EngineNeverFromAbsentIndex ==
    /\ session_state # NoneVal
    /\ session_state # Absent =>
         /\ session_state.kind = "engine"
         /\ session_state.batch \in Batches
         /\ session_state.run \in 1..run
    /\ retriever_arg # NoneVal
    /\ retriever_arg # Absent =>
         /\ retriever_arg = index
         /\ index.kind = "index"
         /\ index.batch = uploaded_files
         /\ "from_documents" \in ops
    /\ proc_result = "ok" => session_state = EngineOf(index)
    /\ \A o \in {"ok", "llm_raises", "ctor_raises"} :
         create_query_engine(NoneVal, o) = [engine |-> NoneVal, arg |-> Absent]
C7_Witness ==
    /\ proc_result = "ok"
    /\ retriever_arg = index
    /\ index.kind = "index"
    /\ session_state = EngineOf(index)

\* C8: the staging directory exists only while load_documents_from_files is
\* writing or reading; it is gone on every exit path, in particular while
\* the index is built, and at most one exists at any time.
C8_StagingReleased ==
    /\ Cardinality(temp_dirs) <= 1
    /\ pc # "write" => temp_dirs = {}
    /\ pc = "write" => Cardinality(temp_dirs) = 1
C8_Witness ==
    /\ proc_result = "load_exc"
    /\ "write" \in ops
    /\ "read" \notin ops
    /\ temp_dirs = {}

\* C9 (as claimed): in an interaction whose processing fails, whatever the
\* kind of failure, the query step does not run and no query is answered.
C9_Original ==
    proc_result \in Failures =>
        /\ calls = << >>
        /\ ~InQueryStep

\* C10: when the processing of an interaction succeeds, the query of that
\* interaction is answered by the engine built in that interaction from the
\* uploaded batch, never by the engine stored when the interaction began.
C10_ProcessBeforeQuery ==
    proc_result = "ok" =>
        \A i \in 1..Len(calls) :
            /\ calls[i].kind = "engine"
            /\ calls[i].run = run
            /\ calls[i].batch = uploaded_files
            /\ calls[i] # engine_at_start
C10_Witness ==
    /\ proc_result = "ok"
    /\ engine_at_start.kind = "engine"
    /\ engine_at_start.batch = uploaded_files
    /\ Len(calls) = 1
    /\ response.ok
====
